---- MODULE Spec2Model ----
(***************************************************************************)
(* Model of chipsec/hal/smn.py: indirect access to AMD SMN registers       *)
(* through the address/data register pair of the root complex's PCI        *)
(* configuration space, and the SMN BAR name resolver built on top of it.  *)
(*                                                                         *)
(* Python integers are unbounded, so the arithmetic of the module is       *)
(* modelled on Int without any wrap.  The width of a PCI dword is scaled   *)
(* down from 32 bits to DWORD_BITS bits so that sums crossing the dword    *)
(* boundary stay inside the range of the model checker's integers.         *)
(***************************************************************************)
EXTENDS Integers, Sequences, FiniteSets, TLC

\* ------------------------------------------------------------------ bounds
\* Width of a dword (32 on the hardware), scaled down.
DWORD_BITS == 4
\* Number of calls of the HAL's methods in one behaviour.
MaxCalls == 2
\* Number of calls in one behaviour of two concurrent callers.
MaxPortCalls == 2
\* Number of calls in one behaviour of two callers that take turns.
MaxSerialCalls == 3
\* Number of calls in one behaviour in which cs.pci may raise.
MaxFaultCalls == 2

TwoPow[n \in Nat] == IF n = 0 THEN 1 ELSE 2 * TwoPow[n - 1]
DwordMod == TwoPow[DWORD_BITS]
MaxDword == DwordMod - 1
Dword    == 0 .. MaxDword

\* --------------------------------------------------------------- constants
\* smn.py:46-47
SMN_PCI_ADDR_REG == 96
SMN_PCI_DATA_REG == 100

\* ------------------------------------------------------------------ inputs
Callers    == {1, 2}
BusIndexes == {0, 1}
\* The optional bus argument: <<>> is Python's None, <<b>> an explicit bus.
BusArgs    == {<<>>} \cup {<<b>> : b \in BusIndexes}
Bases      == {MaxDword \div 2 + 1, MaxDword}
Offsets    == {0, 4}
Values     == {1, MaxDword}
CpuThreads == {0, 1}
\* The arguments of two callers running against each other.
PortBusArgs == {<<>>, <<1>>}
PortOffsets == {4}
\* What cs.pci raises when it fails, and the windows asked for meanwhile.
PciErrors  == {"OSError", "RuntimeError"}
FaultNames == {"SMUTHM", "NOFIXED"}

VARIABLES
    SMN_BARS,     \* cs.Cfg.SMN_BARS: window name -> descriptor
    device_bus,   \* the device directory behind cs.get_device_bus
    cfg_addr,     \* per bus: content of the address register (0x60)
    smn,          \* per bus: the SMN register space behind the data register
    pc,           \* per caller: position inside read_SMN_reg / write_SMN_reg
    frame,        \* per caller: locals of the call in progress
    cur,          \* per caller: the current or last call, what it issued, its outcome
    trace,        \* every PCI configuration transaction issued, in order
    nCalls,       \* calls of the HAL's methods so far
    nRegCalls     \* of which bodies of read_SMN_reg / write_SMN_reg entered

vars == <<SMN_BARS, device_bus, cfg_addr, smn, pc, frame, cur, trace, nCalls, nRegCalls>>

\* ------------------------------------------------------ Python value shapes
\* An optional value: <<>> is None, <<v>> is the value v.
PyNoneVal   == <<>>
Some(v)     == <<v>>

\* The outcome of a call: exc = "" for a normal return of val.
Return(v)   == [exc |-> "", val |-> v]
Raise(e)    == [exc |-> e, val |-> PyNoneVal]

\* A window descriptor is None or a dict from field names to strings; a
\* string is the sequence of its characters.
EmptyDict   == [k \in {} |-> <<>>]
PyNone      == [none |-> TRUE, d |-> EmptyDict]
Dict(f)     == [none |-> FALSE, d |-> f]

\* ---------------------------------------------------------- int(text, 16)
LowerDigits == <<"0","1","2","3","4","5","6","7","8","9","a","b","c","d","e","f">>
UpperDigits == <<"0","1","2","3","4","5","6","7","8","9","A","B","C","D","E","F">>
HexChars    == {LowerDigits[i] : i \in 1..16} \cup {UpperDigits[i] : i \in 1..16}

DigitValue(c) ==
    (CHOOSE i \in 1..16 : LowerDigits[i] = c \/ UpperDigits[i] = c) - 1

RECURSIVE DigitsValue(_, _)
DigitsValue(digits, radix) ==
    IF digits = <<>> THEN 0
    ELSE radix * DigitsValue(SubSeq(digits, 1, Len(digits) - 1), radix)
         + DigitValue(digits[Len(digits)])

\* Python's int(text, 16) on the texts a configuration file holds: an
\* optional 0x / 0X prefix, then at least one hexadecimal digit of either
\* case; anything else is a ValueError.
StripPrefix(text) ==
    IF Len(text) >= 2 /\ text[1] = "0" /\ text[2] \in {"x", "X"}
    THEN SubSeq(text, 3, Len(text))
    ELSE text

\* (Mutation: the digits are read in base 10.)
IntBase16_Decimal(text) ==
    LET digits == StripPrefix(text)
    IN  IF Len(digits) >= 1 /\ \A i \in 1..Len(digits) : digits[i] \in HexChars
        THEN Return(Some(DigitsValue(digits, 10)))
        ELSE Raise("ValueError")

IntBase16(text) ==
    LET digits == StripPrefix(text)
    IN  IF Len(digits) >= 1 /\ \A i \in 1..Len(digits) : digits[i] \in HexChars
        THEN Return(Some(DigitsValue(digits, 16)))
        ELSE Raise("ValueError")

\* ------------------------------------------- external collaborators (cs.*)
\* cs.pci.write_dword / cs.pci.read_dword on an echoing device: the address
\* register of a bus keeps the low DWORD_BITS bits written to it, and the data
\* register reads and writes the SMN register the address register selects.
IsAddrReg(t) == t.dev = 0 /\ t.fun = 0 /\ t.off = SMN_PCI_ADDR_REG
IsDataReg(t) == t.dev = 0 /\ t.fun = 0 /\ t.off = SMN_PCI_DATA_REG

\* smn[bus] holds the registers written so far; the others hold 0.
SmnReg(bus, a) == IF a \in DOMAIN smn[bus] THEN smn[bus][a] ELSE 0

pci_write_dword(t) ==
    /\ cfg_addr' = IF IsAddrReg(t)
                   THEN [cfg_addr EXCEPT ![t.bus] = t.val % DwordMod]
                   ELSE cfg_addr
    /\ smn' = IF IsDataReg(t)
              THEN [smn EXCEPT ![t.bus] = (cfg_addr[t.bus] :> (t.val % DwordMod)) @@ @]
              ELSE smn

pci_read_dword(t) ==
    IF IsDataReg(t) THEN SmnReg(t.bus, cfg_addr[t.bus])
    ELSE IF IsAddrReg(t) THEN cfg_addr[t.bus]
    ELSE MaxDword

\* cs.get_device_bus(name)
get_device_bus(name) == device_bus[name]

\* --------------------------------------------------------------- smn.py
\* (Mutation: the bus argument is dropped for the default.)
DefaultBus_AlwaysDefault(bus) == 0

\* "if bus is None: bus = 0"
DefaultBus(bus) == IF bus = PyNoneVal THEN 0 ELSE bus[1]

\* The arguments of the three cs.pci calls, from the locals f of the call.
\* (Mutation: the bus passed in the device position.)
AddrWriteArgs_BusAsDevice(f) ==
    [op |-> "write_dword", bus |-> 0, dev |-> f.bus, fun |-> 0,
     off |-> SMN_PCI_ADDR_REG, val |-> f.bar_base + f.offset]

\* (Mutation: the address goes to the default bus.)
AddrWriteArgs_DefaultBus(f) ==
    [op |-> "write_dword", bus |-> 0, dev |-> 0, fun |-> 0,
     off |-> SMN_PCI_ADDR_REG, val |-> f.bar_base + f.offset]

AddrWriteArgs(f) ==
    [op |-> "write_dword", bus |-> f.bus, dev |-> 0, fun |-> 0,
     off |-> SMN_PCI_ADDR_REG, val |-> f.bar_base + f.offset]

\* (Mutation: the read goes to the address register.)
DataReadArgs_AddrReg(f) ==
    [op |-> "read_dword", bus |-> f.bus, dev |-> 0, fun |-> 0,
     off |-> SMN_PCI_ADDR_REG, val |-> 0]

DataReadArgs(f) ==
    [op |-> "read_dword", bus |-> f.bus, dev |-> 0, fun |-> 0,
     off |-> SMN_PCI_DATA_REG, val |-> 0]

\* (Mutation: the value goes to the address register.)
DataWriteArgs_AddrReg(f) ==
    [op |-> "write_dword", bus |-> f.bus, dev |-> 0, fun |-> 0,
     off |-> SMN_PCI_ADDR_REG, val |-> f.value]

DataWriteArgs(f) ==
    [op |-> "write_dword", bus |-> f.bus, dev |-> 0, fun |-> 0,
     off |-> SMN_PCI_DATA_REG, val |-> f.value]

\* (Mutation: only None is taken for an unconfigured window, not {}.)
get_SMN_BAR_base_address_NoEmptyTest(bar_name) ==
    IF bar_name \notin DOMAIN SMN_BARS THEN Raise("KeyError")
    ELSE LET bar == SMN_BARS[bar_name]
         IN  IF bar.none THEN Return(Some(-1))
             ELSE IF "fixed_address" \notin DOMAIN bar.d THEN Raise("Exception")
             ELSE IntBase16(bar.d["fixed_address"])

\* (Mutation: a descriptor without fixed_address is taken for unconfigured.)
get_SMN_BAR_base_address_SilentDefault(bar_name) ==
    IF bar_name \notin DOMAIN SMN_BARS THEN Raise("KeyError")
    ELSE LET bar == SMN_BARS[bar_name]
         IN  IF bar.none \/ DOMAIN bar.d = {} THEN Return(Some(-1))
             ELSE IF "fixed_address" \notin DOMAIN bar.d THEN Return(Some(-1))
             ELSE IntBase16(bar.d["fixed_address"])

\* get_SMN_BAR_base_address: subscripting SMN_BARS with a key it does not
\* hold raises KeyError before any of the tests on the descriptor runs.
get_SMN_BAR_base_address(bar_name) ==
    IF bar_name \notin DOMAIN SMN_BARS THEN Raise("KeyError")
    ELSE LET bar == SMN_BARS[bar_name]
         IN  IF bar.none \/ DOMAIN bar.d = {} THEN Return(Some(-1))
             ELSE IF "fixed_address" \notin DOMAIN bar.d THEN Raise("Exception")
             ELSE IntBase16(bar.d["fixed_address"])

\* (Mutation: the thread number is taken for the bus.)
BusFromCpuThread_ByThread(cpu_thread) == Return(Some(cpu_thread))

\* get_bus_from_cpu_thread
BusFromCpuThread(cpu_thread) == Return(Some(get_device_bus("ROOT")))

\* ------------------------------------------------------------- call records
\* A call of the HAL: the method and its arguments (those a method does not
\* take keep the values of NoCall).
NoCall == [op |-> "", bar_name |-> "", bar_base |-> 0, offset |-> 0,
           value |-> 0, bus |-> PyNoneVal, cpu_thread |-> 0]

NoFrame == [op |-> "", bar_base |-> 0, offset |-> 0, value |-> 0, bus |-> 0, id |-> 0]

\* cur[p]: the call, its number, whether it has ended, its outcome, the base address the
\* by-name methods resolved, and the PCI transactions it issued.
NoCur == [call |-> NoCall, id |-> 0, done |-> FALSE, out |-> Return(PyNoneVal),
          base |-> PyNoneVal, txns |-> <<>>]

\* One entry of the transaction trace: the cs.pci call with the value it
\* carried (written, or read back), the HAL call that issued it, what the
\* address register of its bus held when it reached the device, and the
\* exception cs.pci raised for it ("" if none).
TraceEntry(p, t) ==
    [txn |-> t, caller |-> p, id |-> frame[p].id, kind |-> frame[p].op,
     bar_base |-> frame[p].bar_base, offset |-> frame[p].offset,
     sel |-> cfg_addr[t.bus], err |-> ""]

\* The configuration the platform's XML files produce.
InitialBars ==
    [n \in {"SMUTHM", "IOHC", "NONE", "EMPTY", "NOFIXED", "BADHEX"} |->
       CASE n = "SMUTHM"  -> Dict([fixed_address |-> <<"0", "x", "3", "B">>])
         [] n = "IOHC"    -> Dict([fixed_address |-> <<"0", "X", "e">>])
         [] n = "NONE"    -> PyNone
         [] n = "EMPTY"   -> Dict(EmptyDict)
         [] n = "NOFIXED" -> Dict([size |-> <<"0", "x", "1", "0">>])
         [] n = "BADHEX"  -> Dict([fixed_address |-> <<"0", "x", "Z">>])]

\* The device directory: the default root complex sits on bus 1.
InitialDevices == [n \in {"ROOT"} |-> 1]

\* The names callers ask for: every configured one and one that is not.
BarNames == DOMAIN InitialBars \cup {"NOKEY"}

Init ==
    /\ SMN_BARS = InitialBars
    /\ device_bus = InitialDevices
    /\ cfg_addr = [b \in BusIndexes |-> 0]
    /\ smn = [b \in BusIndexes |-> [a \in {} |-> 0]]
    /\ pc = [p \in Callers |-> "idle"]
    /\ frame = [p \in Callers |-> NoFrame]
    /\ cur = [p \in Callers |-> NoCur]
    /\ trace = <<>>
    /\ nCalls = 0
    /\ nRegCalls = 0

\* ------------------------------------------------------------------ actions
\* Entry into the body of read_SMN_reg / write_SMN_reg for call c, with
\* bar_base as resolved (resolved is what get_SMN_BAR_base_address gave, or
\* None for the by-base methods): the bus default is applied.
Enter(p, kind, c, bar_base, resolved) ==
    /\ nCalls' = nCalls + 1
    /\ nRegCalls' = nRegCalls + 1
    /\ frame' = [frame EXCEPT ![p] =
                   [op |-> kind, bar_base |-> bar_base, offset |-> c.offset,
                    value |-> c.value, bus |-> DefaultBus(c.bus), id |-> nCalls + 1]]
    /\ pc' = [pc EXCEPT ![p] = "addr"]
    /\ cur' = [cur EXCEPT ![p] = [NoCur EXCEPT !.call = c, !.id = nCalls + 1, !.base = resolved]]
    /\ UNCHANGED <<SMN_BARS, device_bus, cfg_addr, smn, trace>>

\* A call that ends without entering read_SMN_reg / write_SMN_reg.
Finish(p, c, out, resolved) ==
    /\ cur' = [cur EXCEPT ![p] =
                 [NoCur EXCEPT !.call = c, !.id = nCalls + 1, !.done = TRUE,
                               !.out = out, !.base = resolved]]
    /\ nCalls' = nCalls + 1
    /\ UNCHANGED <<SMN_BARS, device_bus, cfg_addr, smn, pc, frame, trace, nRegCalls>>

read_SMN_reg(p, bar_base, offset, bus) ==
    /\ pc[p] = "idle"
    /\ Enter(p, "read",
             [NoCall EXCEPT !.op = "read_SMN_reg", !.bar_base = bar_base,
                            !.offset = offset, !.bus = bus],
             bar_base, PyNoneVal)

write_SMN_reg(p, bar_base, offset, value, bus) ==
    /\ pc[p] = "idle"
    /\ Enter(p, "write",
             [NoCall EXCEPT !.op = "write_SMN_reg", !.bar_base = bar_base,
                            !.offset = offset, !.value = value, !.bus = bus],
             bar_base, PyNoneVal)

\* The by-name methods: an exception of get_SMN_BAR_base_address ends the
\* call; any value it returns is handed on as the base.
\* (Mutation: the -1 sentinel ends the call before any transaction.)
ByName_EarlyExit(p, kind, c) ==
    LET r == get_SMN_BAR_base_address(c.bar_name)
    IN  IF r.exc # "" \/ r.val = Some(-1)
        THEN Finish(p, c, r, r.val)
        ELSE Enter(p, kind, c, r.val[1], r.val)

\* (Mutation: an exception of the resolver is caught and -1 used.)
ByName_DefaultOnRaise(p, kind, c) ==
    LET r == get_SMN_BAR_base_address(c.bar_name)
    IN  IF r.exc # ""
        THEN Enter(p, kind, c, -1, Some(-1))
        ELSE Enter(p, kind, c, r.val[1], r.val)

ByName(p, kind, c) ==
    LET r == get_SMN_BAR_base_address(c.bar_name)
    IN  IF r.exc # ""
        THEN Finish(p, c, r, PyNoneVal)
        ELSE Enter(p, kind, c, r.val[1], r.val)

read_SMN_BAR_reg(p, bar_name, offset, bus) ==
    /\ pc[p] = "idle"
    /\ ByName(p, "read",
              [NoCall EXCEPT !.op = "read_SMN_BAR_reg", !.bar_name = bar_name,
                             !.offset = offset, !.bus = bus])

write_SMN_BAR_reg(p, bar_name, offset, value, bus) ==
    /\ pc[p] = "idle"
    /\ ByName(p, "write",
              [NoCall EXCEPT !.op = "write_SMN_BAR_reg", !.bar_name = bar_name,
                             !.offset = offset, !.value = value, !.bus = bus])

\* (Mutation: an entry that is None is replaced by an empty record.)
CallBaseAddress_StoresDefault(p, bar_name) ==
    /\ pc[p] = "idle"
    /\ LET r == get_SMN_BAR_base_address(bar_name)
       IN  /\ cur' = [cur EXCEPT ![p] =
                        [NoCur EXCEPT !.call = [NoCall EXCEPT !.op = "get_SMN_BAR_base_address",
                                                            !.bar_name = bar_name],
                                      !.id = nCalls + 1, !.done = TRUE,
                                      !.out = r, !.base = r.val]]
           /\ SMN_BARS' = IF bar_name \in DOMAIN SMN_BARS /\ SMN_BARS[bar_name].none
                          THEN [SMN_BARS EXCEPT ![bar_name] = Dict(EmptyDict)]
                          ELSE SMN_BARS
    /\ nCalls' = nCalls + 1
    /\ UNCHANGED <<device_bus, cfg_addr, smn, pc, frame, trace, nRegCalls>>

CallBaseAddress(p, bar_name) ==
    /\ pc[p] = "idle"
    /\ LET r == get_SMN_BAR_base_address(bar_name)
       IN  Finish(p, [NoCall EXCEPT !.op = "get_SMN_BAR_base_address",
                                    !.bar_name = bar_name],
                  r, r.val)

get_bus_from_cpu_thread(p, cpu_thread) ==
    /\ pc[p] = "idle"
    /\ Finish(p, [NoCall EXCEPT !.op = "get_bus_from_cpu_thread",
                                !.cpu_thread = cpu_thread],
              BusFromCpuThread(cpu_thread), PyNoneVal)

\* (Mutation: the address write is skipped when the address register
\* already selects the target.)
AddrWrite_Cached(p) ==
    /\ pc[p] = "addr"
    /\ LET t == AddrWriteArgs(frame[p])
       IN  IF cfg_addr[t.bus] = t.val % DwordMod
           THEN UNCHANGED <<cfg_addr, smn, trace, cur>>
           ELSE /\ pci_write_dword(t)
                /\ trace' = Append(trace, TraceEntry(p, t))
                /\ cur' = [cur EXCEPT ![p].txns = Append(@, t)]
    /\ pc' = [pc EXCEPT ![p] = "data"]
    /\ UNCHANGED <<SMN_BARS, device_bus, frame, nCalls, nRegCalls>>

\* (Mutation: the pair is taken under a lock, so an address write waits
\* while another caller is between its two transactions.)
AddrWrite_Locked(p) ==
    /\ pc[p] = "addr"
    /\ \A q \in Callers \ {p} : pc[q] # "data"
    /\ LET t == AddrWriteArgs(frame[p])
       IN  /\ pci_write_dword(t)
           /\ trace' = Append(trace, TraceEntry(p, t))
           /\ cur' = [cur EXCEPT ![p].txns = Append(@, t)]
    /\ pc' = [pc EXCEPT ![p] = "data"]
    /\ UNCHANGED <<SMN_BARS, device_bus, frame, nCalls, nRegCalls>>

\* self.cs.pci.write_dword(bus, 0, 0, SMN_PCI_ADDR_REG, bar_base + offset)
AddrWrite(p) ==
    /\ pc[p] = "addr"
    /\ LET t == AddrWriteArgs(frame[p])
       IN  /\ pci_write_dword(t)
           /\ trace' = Append(trace, TraceEntry(p, t))
           /\ cur' = [cur EXCEPT ![p].txns = Append(@, t)]
    /\ pc' = [pc EXCEPT ![p] = "data"]
    /\ UNCHANGED <<SMN_BARS, device_bus, frame, nCalls, nRegCalls>>

\* (Mutation: an all-ones value is taken for a failed read and dropped.)
ReadResult_DropsAllOnes(reg_value) ==
    IF reg_value = MaxDword THEN Return(PyNoneVal) ELSE Return(Some(reg_value))

\* reg_value = self.cs.pci.read_dword(bus, 0, 0, SMN_PCI_DATA_REG); return reg_value
ReadResult(reg_value) == Return(Some(reg_value))

DataRead(p) ==
    /\ pc[p] = "data"
    /\ frame[p].op = "read"
    /\ LET args == DataReadArgs(frame[p])
           t    == [args EXCEPT !.val = pci_read_dword(args)]
       IN  /\ trace' = Append(trace, TraceEntry(p, t))
           /\ cur' = [cur EXCEPT ![p].txns = Append(@, t), ![p].done = TRUE,
                                 ![p].out = ReadResult(t.val)]
    /\ pc' = [pc EXCEPT ![p] = "idle"]
    /\ frame' = [frame EXCEPT ![p] = NoFrame]
    /\ UNCHANGED <<SMN_BARS, device_bus, cfg_addr, smn, nCalls, nRegCalls>>

\* self.cs.pci.write_dword(bus, 0, 0, SMN_PCI_DATA_REG, value)
DataWrite(p) ==
    /\ pc[p] = "data"
    /\ frame[p].op = "write"
    /\ LET t == DataWriteArgs(frame[p])
       IN  /\ pci_write_dword(t)
           /\ trace' = Append(trace, TraceEntry(p, t))
           /\ cur' = [cur EXCEPT ![p].txns = Append(@, t), ![p].done = TRUE,
                                 ![p].out = Return(PyNoneVal)]
    /\ pc' = [pc EXCEPT ![p] = "idle"]
    /\ frame' = [frame EXCEPT ![p] = NoFrame]
    /\ UNCHANGED <<SMN_BARS, device_bus, nCalls, nRegCalls>>

\* cs.pci raises e for transaction t of the call of p.  Neither method has
\* a try statement: the exception leaves read_SMN_reg / write_SMN_reg (and
\* the by-name method that called it) at once.  The failed transaction has
\* no effect on the device.
\* (Mutation: the failed transaction is issued again.)
PciRaises_Retried(p, t, e) ==
    /\ trace' = Append(trace, [TraceEntry(p, t) EXCEPT !.err = e])
    /\ cur' = [cur EXCEPT ![p].txns = Append(@, t)]
    /\ UNCHANGED <<SMN_BARS, device_bus, cfg_addr, smn, pc, frame, nCalls, nRegCalls>>

PciRaises(p, t, e) ==
    /\ trace' = Append(trace, [TraceEntry(p, t) EXCEPT !.err = e])
    /\ cur' = [cur EXCEPT ![p].txns = Append(@, t), ![p].done = TRUE,
                          ![p].out = Raise(e)]
    /\ pc' = [pc EXCEPT ![p] = "idle"]
    /\ frame' = [frame EXCEPT ![p] = NoFrame]
    /\ UNCHANGED <<SMN_BARS, device_bus, cfg_addr, smn, nCalls, nRegCalls>>

AddrWriteRaises(p, e) ==
    /\ pc[p] = "addr"
    /\ PciRaises(p, AddrWriteArgs(frame[p]), e)

DataAccessRaises(p, e) ==
    /\ pc[p] = "data"
    /\ PciRaises(p, IF frame[p].op = "read" THEN DataReadArgs(frame[p])
                                            ELSE DataWriteArgs(frame[p]), e)

\* ----------------------------------------------------------- specification
\* The module takes no lock; its callers are expected to serialize their
\* calls.  Under Spec one caller makes up to MaxCalls calls, one after the
\* other.
SerialCallers == {1}

CanCall(p) == pc[p] = "idle" /\ nCalls < MaxCalls

Next ==
    \E p \in SerialCallers :
        \/ \E b \in Bases, o \in Offsets, bus \in BusArgs :
              CanCall(p) /\ read_SMN_reg(p, b, o, bus)
        \/ \E b \in Bases, o \in Offsets, v \in Values, bus \in BusArgs :
              CanCall(p) /\ write_SMN_reg(p, b, o, v, bus)
        \/ \E n \in BarNames, o \in Offsets, bus \in BusArgs :
              CanCall(p) /\ read_SMN_BAR_reg(p, n, o, bus)
        \/ \E n \in BarNames, o \in Offsets, v \in Values, bus \in BusArgs :
              CanCall(p) /\ write_SMN_BAR_reg(p, n, o, v, bus)
        \/ \E n \in BarNames : CanCall(p) /\ CallBaseAddress(p, n)
        \/ \E t \in CpuThreads : CanCall(p) /\ get_bus_from_cpu_thread(p, t)
        \/ AddrWrite(p)
        \/ DataRead(p)
        \/ DataWrite(p)

Spec == Init /\ [][Next]_vars

\* Under SpecPort the two callers are not serialized: each starts a call
\* whenever it is between two calls, and the transactions of the calls in
\* progress reach the device in any order.
CanCallPort(p) == pc[p] = "idle" /\ nCalls < MaxPortCalls

NextPort ==
    \E p \in Callers :
        \/ \E b \in Bases, o \in PortOffsets, bus \in PortBusArgs :
              CanCallPort(p) /\ read_SMN_reg(p, b, o, bus)
        \/ \E b \in Bases, o \in PortOffsets, v \in Values, bus \in PortBusArgs :
              CanCallPort(p) /\ write_SMN_reg(p, b, o, v, bus)
        \/ AddrWrite(p)
        \/ DataRead(p)
        \/ DataWrite(p)

SpecPort == Init /\ [][NextPort]_vars

\* Under SpecSerial the two callers serialize their calls themselves: a
\* call starts only when no call of either caller is in progress.
CanCallSerial(p) == (\A q \in Callers : pc[q] = "idle") /\ nCalls < MaxSerialCalls

NextSerial ==
    \E p \in Callers :
        \/ \E b \in Bases, o \in PortOffsets, bus \in PortBusArgs :
              CanCallSerial(p) /\ read_SMN_reg(p, b, o, bus)
        \/ \E b \in Bases, o \in PortOffsets, v \in Values, bus \in PortBusArgs :
              CanCallSerial(p) /\ write_SMN_reg(p, b, o, v, bus)
        \/ AddrWrite(p)
        \/ DataRead(p)
        \/ DataWrite(p)

SpecSerial == Init /\ [][NextSerial]_vars

\* Under SpecFault one caller makes its calls one after the other against
\* a cs.pci that may raise on any transaction.
CanCallFault(p) == pc[p] = "idle" /\ nCalls < MaxFaultCalls

NextFault ==
    \E p \in SerialCallers :
        \/ \E b \in Bases, o \in PortOffsets, bus \in PortBusArgs :
              CanCallFault(p) /\ read_SMN_reg(p, b, o, bus)
        \/ \E b \in Bases, o \in PortOffsets, v \in Values, bus \in PortBusArgs :
              CanCallFault(p) /\ write_SMN_reg(p, b, o, v, bus)
        \/ \E n \in FaultNames, o \in PortOffsets, bus \in PortBusArgs :
              CanCallFault(p) /\ read_SMN_BAR_reg(p, n, o, bus)
        \/ \E n \in FaultNames, o \in PortOffsets, v \in Values, bus \in PortBusArgs :
              CanCallFault(p) /\ write_SMN_BAR_reg(p, n, o, v, bus)
        \/ AddrWrite(p)
        \/ DataRead(p)
        \/ DataWrite(p)
        \/ \E e \in PciErrors : AddrWriteRaises(p, e)
        \/ \E e \in PciErrors : DataAccessRaises(p, e)

SpecFault == Init /\ [][NextFault]_vars

\* ------------------------------------------------------------------ claims
Idle        == \A p \in Callers : pc[p] = "idle"
Ended(p)    == pc[p] = "idle" /\ cur[p].done
ByBaseOps   == {"read_SMN_reg", "write_SMN_reg"}
ByNameOps   == {"read_SMN_BAR_reg", "write_SMN_BAR_reg"}
IsReadOp(o) == o \in {"read_SMN_reg", "read_SMN_BAR_reg"}

\* The transactions still to come from the calls in progress.
Pending ==
    LET Of(p) == IF pc[p] = "addr" THEN 2 ELSE IF pc[p] = "data" THEN 1 ELSE 0
    IN  Of(1) + Of(2)

\* C1: every body of read_SMN_reg / write_SMN_reg issues exactly two PCI
\* transactions, first a write_dword to the address register (0x60), then
\* one access to the data register (0x64): a read_dword for a read, a
\* write_dword of the value for a write.  Nothing is cached or coalesced:
\* after n bodies the trace holds 2n entries, n such pairs of distinct calls.
C1_TwoTransactionsInOrder ==
    /\ Len(trace) + Pending = 2 * nRegCalls
    /\ \A i \in 1..Len(trace) :
          LET e == trace[i]
          IN  IF i % 2 = 1
              THEN /\ e.txn.op = "write_dword"
                   /\ e.txn.off = SMN_PCI_ADDR_REG
                   /\ i > 2 => trace[i - 2].id < e.id
              ELSE /\ e.id = trace[i - 1].id
                   /\ e.txn.bus = trace[i - 1].txn.bus
                   /\ e.txn.off = SMN_PCI_DATA_REG
                   /\ e.txn.op = IF e.kind = "read" THEN "read_dword" ELSE "write_dword"
    /\ \A p \in Callers :
          Ended(p) /\ cur[p].call.op \in ByBaseOps =>
            /\ Len(cur[p].txns) = 2
            /\ cur[p].txns[1].off = SMN_PCI_ADDR_REG
            /\ cur[p].txns[2].off = SMN_PCI_DATA_REG
            /\ cur[p].call.op = "write_SMN_reg" =>
                  /\ cur[p].txns[2].op = "write_dword"
                  /\ cur[p].txns[2].val = cur[p].call.value

\* Two consecutive calls on the same base, offset and bus have both ended.
C1_Witness ==
    /\ Idle
    /\ Len(trace) = 4
    /\ trace[1].bar_base = trace[3].bar_base
    /\ trace[1].offset = trace[3].offset
    /\ trace[1].txn.bus = trace[3].txn.bus
    /\ trace[1].kind = trace[3].kind

\* C2: on the echoing device, write_SMN_reg(base, offset, v) followed
\* immediately by read_SMN_reg(base, offset) on the same bus returns v.
C2_RoundTrip ==
    \A p \in Callers :
      LET n == Len(trace)
      IN  ( /\ Ended(p)
            /\ cur[p].call.op = "read_SMN_reg"
            /\ n >= 4
            /\ trace[n].id = cur[p].id
            /\ trace[n - 2].kind = "write"
            /\ trace[n - 2].bar_base = cur[p].call.bar_base
            /\ trace[n - 2].offset = cur[p].call.offset
            /\ trace[n - 2].txn.bus = trace[n].txn.bus )
          => cur[p].out = Return(Some(trace[n - 2].txn.val))

\* A read has just returned the value the call before it wrote, and that
\* value is not what the register held at the start.
C2_Witness ==
    \E p \in Callers :
      /\ Ended(p)
      /\ cur[p].call.op = "read_SMN_reg"
      /\ Len(trace) = 4
      /\ trace[4].id = cur[p].id
      /\ trace[2].kind = "write"
      /\ trace[2].bar_base = cur[p].call.bar_base
      /\ trace[2].offset = cur[p].call.offset
      /\ trace[2].txn.bus = trace[4].txn.bus
      /\ cur[p].call.bar_base + cur[p].call.offset > MaxDword
      /\ cur[p].out = Return(Some(MaxDword))

\* C3: every PCI configuration transaction the module issues has device 0,
\* function 0 and register offset 0x60 or 0x64; only the bus varies.
C3_DeviceFunctionOffsets ==
    \A i \in 1..Len(trace) :
      /\ trace[i].txn.dev = 0
      /\ trace[i].txn.fun = 0
      /\ trace[i].txn.off \in {SMN_PCI_ADDR_REG, SMN_PCI_DATA_REG}

\* Transactions of a by-name call and of a by-base call, on different buses.
C3_Witness ==
    /\ Len(trace) = 4
    /\ trace[1].txn.bus # trace[3].txn.bus
    /\ \E p \in Callers : Ended(p) /\ cur[p].call.op \in ByNameOps
    /\ trace[1].kind # trace[3].kind

\* Hexadecimal texts of a number: its digits in either case, bare or after
\* a 0x / 0X prefix.
RECURSIVE ToDigits(_, _)
ToDigits(A, table) ==
    IF A < 16 THEN <<table[A + 1]>>
    ELSE Append(ToDigits(A \div 16, table), table[(A % 16) + 1])

HexTexts(A) ==
    {prefix \o ToDigits(A, table) :
        prefix \in {<<>>, <<"0", "x">>, <<"0", "X">>},
        table \in {LowerDigits, UpperDigits}}

MaxAddress == 255

\* The numbers a text is a hexadecimal text of.
Encoded == [text \in UNION {HexTexts(A) : A \in 0..MaxAddress} |->
              {A \in 0..MaxAddress : text \in HexTexts(A)}]

HasFixedAddress(name) ==
    /\ name \in DOMAIN SMN_BARS
    /\ ~SMN_BARS[name].none
    /\ "fixed_address" \in DOMAIN SMN_BARS[name].d

\* What read_SMN_reg / write_SMN_reg called with (bar_base, offset, value,
\* bus) hand to cs.pci, the value read back left out.
ByBaseTxns(kind, bar_base, c) ==
    LET f == [op |-> kind, bar_base |-> bar_base, offset |-> c.offset,
              value |-> c.value, bus |-> DefaultBus(c.bus), id |-> 0]
    IN  <<AddrWriteArgs(f), IF kind = "read" THEN DataReadArgs(f) ELSE DataWriteArgs(f)>>

Unread(txns) ==
    [i \in 1..Len(txns) |->
        IF txns[i].op = "read_dword" THEN [txns[i] EXCEPT !.val = 0] ELSE txns[i]]

EncodedBy(text) == IF text \in DOMAIN Encoded THEN Encoded[text] ELSE {}

\* C4: for a window whose fixed_address is a hexadecimal text of A,
\* get_SMN_BAR_base_address returns A, read_SMN_BAR_reg issues the
\* transactions of read_SMN_reg(A, offset, bus) and returns the value that
\* call returns (the register at A + offset of that bus), and
\* write_SMN_BAR_reg issues the transactions of write_SMN_reg(A, offset,
\* value, bus).
C4_FixedAddressWindow ==
    \A p \in Callers :
      LET c == cur[p].call
      IN  Ended(p) /\ HasFixedAddress(c.bar_name) =>
            \A A \in EncodedBy(SMN_BARS[c.bar_name].d["fixed_address"]) :
                /\ c.op = "get_SMN_BAR_base_address" => cur[p].out = Return(Some(A))
                /\ c.op = "read_SMN_BAR_reg" =>
                      /\ Unread(cur[p].txns) = ByBaseTxns("read", A, c)
                      /\ cur[p].out =
                           Return(Some(SmnReg(DefaultBus(c.bus), (A + c.offset) % DwordMod)))
                /\ c.op = "write_SMN_BAR_reg" =>
                      /\ cur[p].txns = ByBaseTxns("write", A, c)
                      /\ cur[p].out = Return(PyNoneVal)

\* A by-name read of SMUTHM on bus 1 has returned what an earlier call wrote.
C4_Witness ==
    \E p \in Callers :
      /\ Ended(p)
      /\ cur[p].call.op = "read_SMN_BAR_reg"
      /\ cur[p].call.bar_name = "SMUTHM"
      /\ cur[p].call.bus = Some(1)
      /\ Len(cur[p].txns) = 2
      /\ cur[p].out = Return(Some(MaxDword))

\* C5: for a window name that SMN_BARS holds no entry for,
\* get_SMN_BAR_base_address returns -1 and does not raise.
C5_AbsentNameReturnsSentinel ==
    \A p \in Callers :
      ( /\ Ended(p)
        /\ cur[p].call.op = "get_SMN_BAR_base_address"
        /\ cur[p].call.bar_name \notin DOMAIN SMN_BARS )
      => cur[p].out = Return(Some(-1))

\* C6: for a window name whose entry is None or an empty record,
\* get_SMN_BAR_base_address returns -1, does not raise and issues no PCI
\* transaction.
C6_EmptyEntryReturnsSentinel ==
    \A p \in Callers :
      ( /\ Ended(p)
        /\ cur[p].call.op = "get_SMN_BAR_base_address"
        /\ cur[p].call.bar_name \in DOMAIN SMN_BARS
        /\ \/ SMN_BARS[cur[p].call.bar_name].none
           \/ DOMAIN SMN_BARS[cur[p].call.bar_name].d = {} )
      => /\ cur[p].out = Return(Some(-1))
         /\ cur[p].txns = <<>>
         /\ Len(trace) = 2 * nRegCalls

\* The call has ended for the entry that is an empty record.
C6_Witness ==
    \E p \in Callers :
      /\ Ended(p)
      /\ cur[p].call.op = "get_SMN_BAR_base_address"
      /\ cur[p].call.bar_name = "EMPTY"
      /\ nCalls = 2

NoFixedAddress(name) ==
    /\ name \in DOMAIN SMN_BARS
    /\ ~SMN_BARS[name].none
    /\ DOMAIN SMN_BARS[name].d # {}
    /\ "fixed_address" \notin DOMAIN SMN_BARS[name].d

\* C7 as claimed: for an entry that is present and not empty but has no
\* fixed_address, get_SMN_BAR_base_address fails with a ConfigurationError.
C7_RaisesConfigurationError ==
    \A p \in Callers :
      ( /\ Ended(p)
        /\ cur[p].call.op = "get_SMN_BAR_base_address"
        /\ NoFixedAddress(cur[p].call.bar_name) )
      => cur[p].out = Raise("ConfigurationError")

\* C7 as amended: for such an entry get_SMN_BAR_base_address raises a bare
\* Exception of its own, and returns neither -1 nor any other base address.
C7_RaisesException ==
    \A p \in Callers :
      ( /\ Ended(p)
        /\ cur[p].call.op = "get_SMN_BAR_base_address"
        /\ NoFixedAddress(cur[p].call.bar_name) )
      => /\ cur[p].out = Raise("Exception")
         /\ cur[p].base = PyNoneVal

C7_Witness ==
    \E p \in Callers :
      /\ Ended(p)
      /\ cur[p].call.op = "get_SMN_BAR_base_address"
      /\ cur[p].call.bar_name = "NOFIXED"
      /\ cur[p].out.exc # ""

\* C8: for base and offset in the dword range, the value that read_SMN_reg
\* and write_SMN_reg write to the address register is (base + offset)
\* modulo the dword range, never a wider value.
C8_AddressWrapsToDword ==
    \A i \in 1..Len(trace) :
      ( /\ trace[i].txn.off = SMN_PCI_ADDR_REG
        /\ trace[i].bar_base \in Dword
        /\ trace[i].offset \in Dword )
      => trace[i].txn.val = (trace[i].bar_base + trace[i].offset) % DwordMod

\* C9: get_bus_from_cpu_thread returns, for every thread identifier, the
\* bus the device directory reports for "ROOT".
C9_BusIndependentOfThread ==
    \A p \in Callers :
      ( /\ Ended(p)
        /\ cur[p].call.op = "get_bus_from_cpu_thread" )
      => cur[p].out = Return(Some(device_bus["ROOT"]))

\* The call has ended, as the second call of the run, for a thread whose
\* number is not the bus of "ROOT".
C9_Witness ==
    \E p \in Callers :
      /\ Ended(p)
      /\ cur[p].call.op = "get_bus_from_cpu_thread"
      /\ cur[p].call.cpu_thread # device_bus["ROOT"]
      /\ cur[p].out.exc = ""
      /\ nCalls = 2
      /\ trace = <<>>

ResolvesToSentinel(name) ==
    /\ name \in DOMAIN SMN_BARS
    /\ SMN_BARS[name].none \/ DOMAIN SMN_BARS[name].d = {}

\* C10: when get_SMN_BAR_base_address gives -1 for the name,
\* read_SMN_BAR_reg and write_SMN_BAR_reg do not end early: they issue the
\* address-register write, with -1 + offset, and then the data-register
\* access.
C10_SentinelPassedThrough ==
    \A p \in Callers :
      ( /\ cur[p].call.op \in ByNameOps
        /\ ResolvesToSentinel(cur[p].call.bar_name) )
      => /\ cur[p].base = Some(-1)
         /\ pc[p] = "idle" =>
               /\ Len(cur[p].txns) = 2
               /\ cur[p].txns[1].op = "write_dword"
               /\ cur[p].txns[1].off = SMN_PCI_ADDR_REG
               /\ cur[p].txns[1].val = -1 + cur[p].call.offset
               /\ cur[p].txns[2].off = SMN_PCI_DATA_REG
               /\ cur[p].txns[2].bus = cur[p].txns[1].bus
               /\ cur[p].txns[2].op =
                    IF IsReadOp(cur[p].call.op) THEN "read_dword" ELSE "write_dword"
               /\ cur[p].out.exc = ""

\* A by-name write to a window whose entry is None has ended, the address
\* register written with -1.
C10_Witness ==
    \E p \in Callers :
      /\ Ended(p)
      /\ cur[p].call.op = "write_SMN_BAR_reg"
      /\ cur[p].call.bar_name = "NONE"
      /\ Len(cur[p].txns) = 2
      /\ cur[p].txns[1].val = -1

\* ------------------------------------------------- two callers on the port
\* The SMN register the call behind trace entry e targets.
Own(e)      == (e.bar_base + e.offset) % DwordMod
IsData(e)   == e.txn.off = SMN_PCI_DATA_REG
IsAddr(e)   == e.txn.off = SMN_PCI_ADDR_REG

\* The last address-register write on the bus of entry i before it.
AddrWritesBefore(i) ==
    {k \in 1..(i - 1) : IsAddr(trace[k]) /\ trace[k].txn.bus = trace[i].txn.bus}

Latest(S) == CHOOSE k \in S : \A m \in S : m <= k

\* No transaction of another call reached the bus of data access i between
\* the address write of its call and it.
PairIntact(i) ==
    \E j \in 1..(i - 1) :
      /\ trace[j].id = trace[i].id
      /\ \A k \in (j + 1)..(i - 1) : trace[k].txn.bus # trace[i].txn.bus

\* C11: the address/data pair is not atomic.  With two callers on the same
\* bus and no lock around them, nothing in the module keeps one caller's
\* address write from landing between the other's address write and data
\* access (the address write of a call is enabled whatever the other caller
\* is doing), and a data access acts on the register that the latest
\* address write on its bus selected, whichever call made it.
C11_PairNotAtomic ==
    /\ \A p \in Callers : pc[p] = "addr" => ENABLED AddrWrite(p)
    /\ \A i \in 1..Len(trace) :
          IsData(trace[i]) =>
            /\ AddrWritesBefore(i) # {}
            /\ trace[i].sel = Own(trace[Latest(AddrWritesBefore(i))])

\* A read has returned the value the other caller stored at the other
\* caller's address: its own register still holds 0.
C11_Witness ==
    /\ Len(trace) = 4
    /\ trace[1].caller # trace[2].caller
    /\ trace[1].txn.bus = trace[2].txn.bus
    /\ IsAddr(trace[1]) /\ IsAddr(trace[2])
    /\ trace[3].id = trace[2].id /\ trace[3].kind = "write"
    /\ trace[4].id = trace[1].id /\ trace[4].kind = "read"
    /\ trace[4].sel = Own(trace[2])
    /\ Own(trace[2]) # Own(trace[1])
    /\ trace[4].txn.val = trace[3].txn.val
    /\ SmnReg(trace[4].txn.bus, Own(trace[1])) # trace[4].txn.val
    /\ cur[trace[4].caller].out = Return(Some(trace[3].txn.val))

\* Entry i is the second transaction of its call: the data access.
Second(i) == \E j \in 1..(i - 1) : trace[j].id = trace[i].id

\* The value the echoing device holds for read i: that of the latest earlier
\* write of a call targeting the same register on the same bus, 0 if none.
WritesBefore(i) ==
    {k \in 1..(i - 1) :
        /\ Second(k) /\ trace[k].kind = "write"
        /\ trace[k].txn.bus = trace[i].txn.bus
        /\ Own(trace[k]) = Own(trace[i])}

MostRecentWrite(i) ==
    IF WritesBefore(i) = {} THEN 0
    ELSE trace[Latest(WritesBefore(i))].txn.val % DwordMod

SerializedTrace ==
    \A i \in 1..Len(trace) : Second(i) => PairIntact(i)

\* C12: when the calls are serialized (no pair has another call's
\* transaction on its bus in between), every read returns the value of the
\* most recent write to the same register on that bus, and no data access
\* finds in the address register an address another call left there.
C12_SerializedReadsSeeLatestWrite ==
    SerializedTrace =>
      \A i \in 1..Len(trace) :
        Second(i) =>
          /\ trace[i].sel = Own(trace[i])
          /\ trace[i].kind = "read" =>
                /\ trace[i].txn.val = MostRecentWrite(i)
                /\ \A p \in Callers :
                      Ended(p) /\ cur[p].id = trace[i].id =>
                        cur[p].out = Return(Some(MostRecentWrite(i)))

\* Two writes of different values by different callers to one register,
\* then a read of it that returned the second value.
C12_Witness ==
    /\ Idle
    /\ Len(trace) = 6
    /\ SerializedTrace
    /\ trace[2].kind = "write" /\ trace[4].kind = "write" /\ trace[6].kind = "read"
    /\ trace[2].caller # trace[4].caller
    /\ trace[2].txn.val # trace[4].txn.val
    /\ WritesBefore(6) = {2, 4}
    /\ cur[trace[6].caller].out = Return(Some(trace[4].txn.val))

\* C13: the bus argument is passed through unchanged.  Both transactions of
\* a call target the caller's bus argument when one is given (an explicit 0
\* included) and bus 0 when it is None, for the by-base methods and, through
\* them, for the by-name methods.
C13_BusPassedThrough ==
    \A p \in Callers :
      cur[p].call.op \in ByBaseOps \cup ByNameOps =>
        \A i \in 1..Len(cur[p].txns) :
          cur[p].txns[i].bus =
            IF cur[p].call.bus = PyNoneVal THEN 0 ELSE cur[p].call.bus[1]

\* A by-name write given bus 1 has ended after a by-base call given an
\* explicit bus 0.
C13_Witness ==
    \E p \in Callers :
      /\ Ended(p)
      /\ cur[p].call.op = "write_SMN_BAR_reg"
      /\ cur[p].call.bus = Some(1)
      /\ Len(cur[p].txns) = 2
      /\ Len(trace) = 4
      /\ trace[1].txn.bus = 0
      /\ trace[3].txn.bus = 1

EntriesOf(id) == {k \in 1..Len(trace) : trace[k].id = id}

\* C14: an exception of cs.pci reaches the caller as it was raised and
\* nothing is retried.  After a failed address-register write the call
\* issues no data access and no second address write; after a failed data
\* access it issues nothing more.
C14_PciErrorPropagates ==
    \A i \in 1..Len(trace) :
      trace[i].err # "" =>
        LET p == trace[i].caller
        IN  /\ \A k \in EntriesOf(trace[i].id) : k <= i
            /\ IsAddr(trace[i]) => EntriesOf(trace[i].id) = {i}
            /\ IsData(trace[i]) =>
                  \E j \in 1..(i - 1) :
                    /\ EntriesOf(trace[i].id) = {j, i}
                    /\ IsAddr(trace[j]) /\ trace[j].err = ""
            /\ cur[p].id = trace[i].id =>
                  /\ Ended(p)
                  /\ cur[p].out = Raise(trace[i].err)
                  /\ Len(cur[p].txns) = Cardinality(EntriesOf(trace[i].id))

\* cs.pci failed on the address write of one call, then on the data access
\* of the next, a by-name one.
C14_Witness ==
    /\ Len(trace) = 3
    /\ trace[1].err # "" /\ IsAddr(trace[1])
    /\ trace[2].err = "" /\ IsAddr(trace[2])
    /\ trace[3].err # "" /\ IsData(trace[3]) /\ trace[3].id = trace[2].id
    /\ trace[3].err # trace[1].err
    /\ \E p \in Callers :
          /\ Ended(p)
          /\ cur[p].call.op \in ByNameOps
          /\ cur[p].out = Raise(trace[3].err)

\* C15: a window whose entry is present and not empty but has no
\* fixed_address gives no base address: read_SMN_BAR_reg and
\* write_SMN_BAR_reg raise at once for it and issue no PCI transaction.
C15_UnsupportedWindowNoTransaction ==
    \A p \in Callers :
      ( /\ cur[p].call.op \in ByNameOps
        /\ NoFixedAddress(cur[p].call.bar_name) )
      => /\ Ended(p)
         /\ cur[p].out.exc # ""
         /\ cur[p].base = PyNoneVal
         /\ cur[p].txns = <<>>
         /\ EntriesOf(cur[p].id) = {}

\* A by-name write to such a window has ended after a call that issued its
\* two transactions.
C15_Witness ==
    \E p \in Callers :
      /\ Ended(p)
      /\ cur[p].call.op = "write_SMN_BAR_reg"
      /\ cur[p].call.bar_name = "NOFIXED"
      /\ cur[p].out = Raise("Exception")
      /\ Len(trace) = 2

\* C16: indirect transactions on different buses are independent.  A data
\* access that no transaction on its own bus separates from the address
\* write of its call finds that call's address in the address register,
\* whatever other callers do on other buses in between.
C16_BusesIndependent ==
    \A i \in 1..Len(trace) :
      IsData(trace[i]) /\ PairIntact(i) => trace[i].sel = Own(trace[i])

\* Two calls on different buses, interleaved: both address writes, then
\* both data accesses, each on its own address.
C16_Witness ==
    /\ Len(trace) = 4
    /\ IsAddr(trace[1]) /\ IsAddr(trace[2])
    /\ trace[1].txn.bus # trace[2].txn.bus
    /\ trace[1].caller # trace[2].caller
    /\ trace[3].id = trace[1].id /\ trace[4].id = trace[2].id
    /\ Own(trace[1]) # Own(trace[2])
    /\ trace[3].sel = Own(trace[1])
    /\ trace[4].sel = Own(trace[2])

\* C17: no operation changes the window-descriptor mapping: after any
\* sequence of calls, those that raise included, SMN_BARS and every
\* descriptor in it are as they were.
C17_BarsUnchanged ==
    /\ DOMAIN SMN_BARS = DOMAIN InitialBars
    /\ \A n \in DOMAIN InitialBars :
          /\ SMN_BARS[n].none = InitialBars[n].none
          /\ DOMAIN SMN_BARS[n].d = DOMAIN InitialBars[n].d
          /\ \A k \in DOMAIN InitialBars[n].d : SMN_BARS[n].d[k] = InitialBars[n].d[k]

\* A call that issued its two transactions, then a by-name call on a name
\* that is not a key, which raised.
C17_Witness ==
    \E p \in Callers :
      /\ Ended(p)
      /\ nCalls = 2
      /\ Len(trace) = 2
      /\ cur[p].call.op \in ByNameOps
      /\ cur[p].call.bar_name = "NOKEY"
      /\ cur[p].out.exc # ""

\* C18: read_SMN_reg returns exactly the value the data-register read_dword
\* returned for that call, whatever it is.
C18_ReadReturnsRawValue ==
    \A p \in Callers :
      Ended(p) /\ IsReadOp(cur[p].call.op) /\ cur[p].out.exc = "" =>
        /\ Len(cur[p].txns) = 2
        /\ cur[p].txns[2].op = "read_dword"
        /\ cur[p].out = Return(Some(cur[p].txns[2].val))
        /\ trace[Len(trace)].txn = cur[p].txns[2]

\* A by-base read returned the all-ones dword, from a register whose
\* address did not wrap.
C18_Witness ==
    \E p \in Callers :
      /\ Ended(p)
      /\ cur[p].call.op = "read_SMN_reg"
      /\ cur[p].call.bar_base + cur[p].call.offset <= MaxDword
      /\ cur[p].txns[2].val = MaxDword
      /\ cur[p].out = Return(Some(MaxDword))

====
